---- MODULE Spec2Model ----
(***************************************************************************)
(* Model of the history / bookmark search of chromium-hist-bookmarks:      *)
(*   src/src/chrom_history.py   get_histories and everything it calls      *)
(*   src/src/chrom_bookmarks.py match_with_profile_info, removeDuplicates  *)
(*                                                                         *)
(* A Python str is a sequence of characters, a character is a TLA+ string  *)
(* naming one code point ("a", "&", "U+0302").  A Python tuple is a TLA+   *)
(* tuple; Python index k is TLA+ index k+1.  An optional value (str or     *)
(* None) is a sequence of length 0 (None) or 1.                            *)
(***************************************************************************)
EXTENDS Integers, Sequences, FiniteSets, TLC

VARIABLES
    query,                    \* the search string handed to the search
    search_operator_default,  \* chrom_history.py:36, chrom_bookmarks.py:37
    sort_recent,              \* chrom_history.py:40
    ignored_domains,          \* chrom_history.py:30 (None is the empty list)
    dbs,                      \* get_histories' argument: the source list
    store,                    \* per source: the state and rows of its History file
    wpc,                      \* per source: position of the worker running sql(db)
    tmp,                      \* the temporary copies that exist under /tmp
    res,                      \* per source: sql's local list res
    job,                      \* per source: what the pool recorded for its task
    pc,                       \* position of the caller
    matches,                  \* get_histories' merged list (history tuples)
    results,                  \* the list get_histories / the history search returns
    bookmarks,                \* main's bookmarks_with_info of one source
    bm_results,               \* main's matched_bookmarks
    last_visit_time,          \* urls.last_visit_time of one row of a History file
    last_visit,               \* the fourth column the SELECT of sql yields for it
    fs,                       \* a browser's data root: profile directories, Local State
    bm_i,                     \* chrom_bookmarks.py main: sources the loop has handled
    wf,                       \* the items main has added to the workflow output
    history_db,               \* sql: the /tmp path each worker copies its source to
    ignored_domains_env       \* the text configured as ignored_domains

\* what the steps of get_histories and of the two matchers never touch
aux == <<last_visit_time, last_visit, fs, bm_i, wf, history_db, ignored_domains_env>>

vars == <<query, search_operator_default, sort_recent, ignored_domains, dbs,
          store, wpc, tmp, res, job, pc, matches, results, bookmarks, bm_results,
          aux>>

(***************************************************************************)
(* Bounds of the model.                                                    *)
(***************************************************************************)
MaxQueryLen == 3
MaxSources == 2

\* the variables of aux while no step that uses them runs
AuxIdle ==
    /\ last_visit_time = <<>>
    /\ last_visit = <<>>
    /\ fs = <<>>
    /\ bm_i = 0
    /\ wf = <<>>
    /\ history_db = <<>>
    /\ ignored_domains_env = <<>>

(***************************************************************************)
(* Python str operations.                                                  *)
(***************************************************************************)
Range(s) == {s[i] : i \in 1..Len(s)}

\* `c in s` for a one-character c
Has(s, c) == c \in Range(s)

\* `needle in hay`
Contains(hay, needle) ==
    \E i \in 0..(Len(hay) - Len(needle)) :
        SubSeq(hay, i + 1, i + Len(needle)) = needle

\* str.lower() on one code point
LowerChar(c) ==
    CASE c = "A" -> "a"
      [] c = "U+00C2" -> "U+00E2"
      [] OTHER -> c

\* str.lower()
Lower(s) == [i \in 1..Len(s) |-> LowerChar(s[i])]

\* unicodedata.normalize("NFC", s): a base letter followed by the combining
\* circumflex U+0302 composes to the precomposed letter
Composable(c) == c \in {"a", "A"}

ComposeCirc(c) == IF c = "a" THEN "U+00E2" ELSE "U+00C2"

RECURSIVE NFC(_)
NFC(s) ==
    IF Len(s) < 2 THEN s
    ELSE IF Composable(s[1]) /\ s[2] = "U+0302"
         THEN <<ComposeCirc(s[1])>> \o NFC(SubSeq(s, 3, Len(s)))
         ELSE <<s[1]>> \o NFC(Tail(s))

\* index of the first occurrence of c in s (s contains c)
FirstIndex(s, c) == CHOOSE i \in 1..Len(s) : s[i] = c /\ \A j \in 1..(i - 1) : s[j] # c

\* s.split(sep): empty pieces are kept
RECURSIVE Split(_, _)
Split(s, sep) ==
    IF ~Has(s, sep) THEN <<s>>
    ELSE LET i == FirstIndex(s, sep)
         IN  <<SubSeq(s, 1, i - 1)>> \o Split(SubSeq(s, i + 1, Len(s)), sep)

\* s.split(): runs of whitespace separate, empty pieces are dropped
SplitWhitespace(s) == SelectSeq(Split(s, " "), LAMBDA piece : piece # <<>>)

\* str(n) for an int n >= 0
Digit(d) ==
    CASE d = 0 -> "0" [] d = 1 -> "1" [] d = 2 -> "2" [] d = 3 -> "3"
      [] d = 4 -> "4" [] d = 5 -> "5" [] d = 6 -> "6" [] d = 7 -> "7"
      [] d = 8 -> "8" [] OTHER -> "9"

RECURSIVE StrInt(_)
StrInt(n) == IF n < 10 THEN <<Digit(n)>> ELSE StrInt(n \div 10) \o <<Digit(n % 10)>>

\* str(x) for an optional str x: str(None) = "None"
StrOpt(x) == IF x = <<>> THEN <<"N", "o", "n", "e">> ELSE x[1]

\* all() and any() over a list of booleans
PyAll(bs) == \A i \in 1..Len(bs) : bs[i]

PyAny(bs) == \E i \in 1..Len(bs) : bs[i]

(***************************************************************************)
(* The query engine of the history search (chrom_history.py).              *)
(***************************************************************************)
\* a get_search_terms that leaves the empty terms out
get_search_terms_drops_empty(search) ==
    LET search_terms ==
            IF Has(search, "&") THEN Split(search, "&")
            ELSE IF Has(search, "|") THEN Split(search, "|")
            ELSE SplitWhitespace(search)
        kept == SelectSeq(search_terms, LAMBDA piece : piece # <<>>)
    IN  [i \in 1..Len(kept) |-> NFC(kept[i])]

get_search_terms(search) ==
    LET search_terms ==
            IF Has(search, "&") THEN Split(search, "&")
            ELSE IF Has(search, "|") THEN Split(search, "|")
            ELSE SplitWhitespace(search)
    IN  [i \in 1..Len(search_terms) |-> NFC(search_terms[i])]

\* a matcher that looks at every element of the tuple, provenance included
is_in_tuple_every_field(tple, st) ==
    \/ Contains(Lower(tple[1]), Lower(st))
    \/ Contains(Lower(tple[2]), Lower(st))
    \/ Contains(Lower(StrInt(tple[3])), Lower(st))
    \/ Contains(Lower(StrInt(tple[4])), Lower(st))
    \/ Contains(Lower(tple[5]), Lower(st))
    \/ Contains(Lower(tple[6]), Lower(st))
    \/ Contains(Lower(StrOpt(tple[7])), Lower(st))

\* a matcher that compares without lower()
is_in_tuple_case_sensitive(tple, st) ==
    \E i \in 1..2 : Contains(tple[i], st)

\* the nested is_in_tuple_with_profile of search_in_tuples_with_profile:
\* tple[:2] is (url, title)
is_in_tuple_with_profile(tple, st) ==
    \E i \in 1..2 : Contains(Lower(tple[i]), Lower(st))

\* a loop body that lets the configured default decide, whatever the query
history_keeps_default_only(t, search, search_terms) ==
    LET hits == [i \in 1..Len(search_terms) |->
                    is_in_tuple_with_profile(t, search_terms[i])]
    IN  IF search_operator_default THEN PyAll(hits) ELSE PyAny(hits)

\* the test the loop body applies to one tuple t
history_keeps(t, search, search_terms) ==
    LET hits == [i \in 1..Len(search_terms) |->
                    is_in_tuple_with_profile(t, search_terms[i])]
    IN  IF Has(search, "|") THEN PyAny(hits)
        ELSE IF Has(search, "&") THEN PyAll(hits)
        ELSE IF search_operator_default THEN PyAll(hits)
        ELSE PyAny(hits)

search_in_tuples_with_profile(tuples, search) ==
    LET search_terms == get_search_terms(search)
    IN  SelectSeq(tuples, LAMBDA t : history_keeps(t, search, search_terms))

(***************************************************************************)
(* The query engine of the bookmark search (chrom_bookmarks.py).           *)
(***************************************************************************)
\* tple[:2] is (title, url)
bm_is_in_tuple_with_profile(tple, st) ==
    \E i \in 1..2 : Contains(Lower(tple[i]), Lower(st))

bm_search_terms(search_term) ==
    IF Has(search_term, "&") THEN Split(search_term, "&")
    ELSE IF Has(search_term, "|") THEN Split(search_term, "|")
    ELSE SplitWhitespace(search_term)

bm_search_operator(search_term) ==
    IF Has(search_term, "&") THEN "&"
    ELSE IF Has(search_term, "|") THEN "|"
    ELSE IF search_operator_default THEN "AND" ELSE "OR"

bm_keeps(r, search_terms, search_operator) ==
    LET hits == [i \in 1..Len(search_terms) |->
                    bm_is_in_tuple_with_profile(r, search_terms[i])]
    IN  IF search_operator = "&" \/ search_operator = "AND" THEN PyAll(hits)
        ELSE IF search_operator = "|" \/ search_operator = "OR" THEN PyAny(hits)
        ELSE FALSE

match_with_profile_info(search_term, rs) ==
    LET search_terms == bm_search_terms(search_term)
        search_operator == bm_search_operator(search_term)
    IN  SelectSeq(rs, LAMBDA r : bm_keeps(r, search_terms, search_operator))

(***************************************************************************)
(* Post-processing of the history search (chrom_history.py).               *)
(***************************************************************************)
\* the key of the dict comprehension: (a, b) for 7- and 6-tuples, b otherwise
dedup_key(t, n) == IF n = 7 \/ n = 6 THEN <<t[1], t[2]>> ELSE t[2]

\* a removeDuplicates that drops nothing
removeDuplicates_keeps_all(li) == li

\* a removeDuplicates that drops only the first repeated entry it meets
removeDuplicates_drops_one(li) ==
    IF li = <<>> THEN <<>>
    ELSE LET n == Len(li[1])
             dup == {j \in 1..Len(li) :
                        \E i \in 1..(j - 1) : dedup_key(li[i], n) = dedup_key(li[j], n)}
         IN  IF dup = {} THEN li
             ELSE LET j == CHOOSE d \in dup : \A k \in dup : d <= k
                  IN  SubSeq(li, 1, j - 1) \o SubSeq(li, j + 1, Len(li))

\* {key: tuple for ... in li}: a key keeps the position of its first
\* insertion and the value of its last assignment; list(dict.values())
removeDuplicates(li) ==
    IF li = <<>> THEN <<>>
    ELSE LET n == Len(li[1])
             key(i) == dedup_key(li[i], n)
             firsts == SelectSeq([i \in 1..Len(li) |-> i],
                                 LAMBDA i : \A j \in 1..(i - 1) : key(j) # key(i))
             last(i) == CHOOSE j \in i..Len(li) :
                            /\ key(j) = key(i)
                            /\ \A k \in (j + 1)..Len(li) : key(k) # key(i)
         IN  [p \in 1..Len(firsts) |-> li[last(firsts[p])]]

\* a filter whose inner loop has no break: the last domain alone decides
remove_ignored_domains_last_only(rs, ignored) ==
    IF Len(ignored) > 0
    THEN SelectSeq(rs, LAMBDA r : ~Contains(r[1], ignored[Len(ignored)]))
    ELSE rs

\* a filter that passes over empty entries of the list
remove_ignored_domains_skips_empty(rs, ignored) ==
    IF Len(ignored) > 0
    THEN SelectSeq(rs, LAMBDA r :
             \A k \in 1..Len(ignored) :
                 ignored[k] = <<>> \/ ~Contains(r[1], ignored[k]))
    ELSE rs

\* r[0] is the url; with an empty list the input is returned
remove_ignored_domains(rs, ignored) ==
    IF Len(ignored) > 0
    THEN SelectSeq(rs, LAMBDA r : \A k \in 1..Len(ignored) : ~Contains(r[1], ignored[k]))
    ELSE rs

\* Tools.sortListTuple(list_tuple, el) of Alfred3.py: a stable sort,
\* descending by element el
RECURSIVE sortListTuple(_, _)
sortListTuple(list_tuple, el) ==
    IF list_tuple = <<>> THEN <<>>
    ELSE LET n == Len(list_tuple)
             m == CHOOSE i \in 1..n :
                      /\ \A j \in 1..n : list_tuple[j][el + 1] <= list_tuple[i][el + 1]
                      /\ \A j \in 1..(i - 1) : list_tuple[j][el + 1] < list_tuple[i][el + 1]
         IN  <<list_tuple[m]>>
             \o sortListTuple(SubSeq(list_tuple, 1, m - 1) \o SubSeq(list_tuple, m + 1, n), el)

\* results[:30]
ResultLimit == 30

Truncate(li, k) == SubSeq(li, 1, IF Len(li) < k THEN Len(li) ELSE k)

\* a sql_with_profile that takes the provenance from the first source
with_profile_of_first_source(db_info, rows) ==
    [k \in 1..Len(rows) |->
        <<rows[k][1], rows[k][2], rows[k][3], rows[k][4],
          dbs[1][1], dbs[1][2], dbs[1][4]>>]

\* sql_with_profile's list comprehension over the rows sql returned
with_profile(db_info, rows) ==
    [k \in 1..Len(rows) |->
        <<rows[k][1], rows[k][2], rows[k][3], rows[k][4],
          db_info[1], db_info[2], db_info[4]>>]

\* matches = matches + r for r in results
RECURSIVE Concat(_)
Concat(lists) == IF lists = <<>> THEN <<>> ELSE Head(lists) \o Concat(Tail(lists))

\* a get_histories whose sort_by is 2 for recent and 3 otherwise
post_process_swapped_sort_key(lists, search) ==
    LET merged == Concat(lists)
        found == search_in_tuples_with_profile(merged, search)
        unique == removeDuplicates(found)
        kept == IF ignored_domains # <<>>
                THEN remove_ignored_domains(unique, ignored_domains)
                ELSE unique
        sort_by == IF sort_recent THEN 2 ELSE 3
        sorted == sortListTuple(kept, sort_by)
    IN  Truncate(sorted, ResultLimit)

\* a get_histories that cuts the list to 30 before it sorts
post_process_truncate_first(lists, search) ==
    LET merged == Concat(lists)
        found == search_in_tuples_with_profile(merged, search)
        unique == removeDuplicates(found)
        kept == IF ignored_domains # <<>>
                THEN remove_ignored_domains(unique, ignored_domains)
                ELSE unique
        sort_by == IF sort_recent THEN 3 ELSE 2
    IN  sortListTuple(Truncate(kept, ResultLimit), sort_by)

\* get_histories after the pool's map returned `lists`
post_process(lists, search) ==
    LET merged == Concat(lists)
        found == search_in_tuples_with_profile(merged, search)
        unique == removeDuplicates(found)
        kept == IF ignored_domains # <<>>
                THEN remove_ignored_domains(unique, ignored_domains)
                ELSE unique
        sort_by == IF sort_recent THEN 3 ELSE 2
        sorted == sortListTuple(kept, sort_by)
    IN  Truncate(sorted, ResultLimit)

(***************************************************************************)
(* Inputs of the history search: sources, History files, configuration.    *)
(***************************************************************************)
\* source i as history_paths lists it:
\* (browser_name, profile_name, history_file, profile_icon_path)
Source(i) ==
    <<IF i % 2 = 1 THEN <<"b">> ELSE <<"a", "b">>,
      <<"P">> \o StrInt(i),
      <<"History">> \o StrInt(i),
      IF i % 2 = 1 THEN <<>> ELSE << <<"i", "c">> >> >>

\* rows (url, title, visit_count, last_visit) as the SELECT of sql yields
\* them: distinct, title not empty, ordered by last visit descending
StoreRows ==
    { << <<(<<"a">>), (<<"A">>), 5, 1>> >>,
      << <<(<<"b">>), (<<"b">>), 3, 3>>, <<(<<"a">>), (<<"A">>), 2, 2>> >>,
      << <<(<<"a">>), (<<"b">>), 1, 4>> >> }

\* a History file: readable and sound ("ok"), copied but not a database
\* ("corrupt": sqlite3.DatabaseError), or not readable ("unreadable": OSError)
StoreStates == {"ok", "corrupt", "unreadable"}

Stores == [state : StoreStates, rows : StoreRows]

HistoryQueries == {<<"a">>, <<>>}

IgnoredDomainChoices == {<<>>, << <<"b">> >>}

Pending == [state |-> "pending", value |-> <<>>]

Init ==
    /\ query \in HistoryQueries
    /\ search_operator_default \in BOOLEAN
    /\ sort_recent \in BOOLEAN
    /\ ignored_domains \in IgnoredDomainChoices
    /\ \E n \in 1..MaxSources :
        /\ dbs = [i \in 1..n |-> Source(i)]
        /\ store \in [1..n -> Stores]
        /\ wpc = [i \in 1..n |-> "queued"]
        /\ res = [i \in 1..n |-> <<>>]
        /\ job = [i \in 1..n |-> Pending]
    /\ tmp = {}
    /\ pc = "map"
    /\ matches = <<>>
    /\ results = <<>>
    /\ bookmarks = <<>>
    /\ bm_results = <<>>
    /\ AuxIdle

(***************************************************************************)
(* sql(db) run by the pool's worker for source i (chrom_history.py:268).   *)
(***************************************************************************)
config == <<query, search_operator_default, sort_recent, ignored_domains, dbs, store>>

\* a sql that moves the History file to /tmp instead of copying it
Copy_moves_store(i) ==
    /\ pc = "map" /\ wpc[i] = "queued"
    /\ store[i].state # "unreadable"
    /\ tmp' = tmp \cup {i}
    /\ wpc' = [wpc EXCEPT ![i] = "copied"]
    /\ store' = [store EXCEPT ![i] = [state |-> "unreadable", rows |-> <<>>]]
    /\ UNCHANGED <<query, search_operator_default, sort_recent, ignored_domains, dbs,
                   aux, res, job, pc, matches, results, bookmarks, bm_results>>

\* shutil.copy2(db, history_db) succeeds: the copy /tmp/<uuid> exists
Copy(i) ==
    /\ pc = "map" /\ wpc[i] = "queued"
    /\ store[i].state # "unreadable"
    /\ tmp' = tmp \cup {i}
    /\ wpc' = [wpc EXCEPT ![i] = "copied"]
    /\ UNCHANGED <<config, aux, res, job, pc, matches, results, bookmarks, bm_results>>

\* shutil.copy2 raises OSError: not an sqlite3.Error, so it leaves sql and
\* sql_with_profile; the pool records the exception as the task's result
CopyFails(i) ==
    /\ pc = "map" /\ wpc[i] = "queued"
    /\ store[i].state = "unreadable"
    /\ wpc' = [wpc EXCEPT ![i] = "raised"]
    /\ job' = [job EXCEPT ![i] = [state |-> "error", value |-> <<>>]]
    /\ UNCHANGED <<config, aux, tmp, res, pc, matches, results, bookmarks, bm_results>>

\* cursor.execute, fetchall, res.extend(r)
Query(i) ==
    /\ pc = "map" /\ wpc[i] = "copied"
    /\ store[i].state = "ok"
    /\ res' = [res EXCEPT ![i] = res[i] \o store[i].rows]
    /\ wpc' = [wpc EXCEPT ![i] = "fetched"]
    /\ UNCHANGED <<config, aux, tmp, job, pc, matches, results, bookmarks, bm_results>>

\* cursor.execute raises sqlite3.Error: logged, then sys.exit(1).  SystemExit
\* is no Exception: the pool's worker does not catch it, the thread ends and
\* the task never gets a result
QueryFails(i) ==
    /\ pc = "map" /\ wpc[i] = "copied"
    /\ store[i].state = "corrupt"
    /\ wpc' = [wpc EXCEPT ![i] = "exited"]
    /\ UNCHANGED <<config, aux, tmp, res, job, pc, matches, results, bookmarks, bm_results>>

\* a pool that hands the results back in the order of completion
\* (imap_unordered): the result goes to the first slot still pending
Remove_in_completion_order(i) ==
    /\ pc = "map" /\ wpc[i] = "fetched"
    /\ tmp' = tmp \ {i}
    /\ wpc' = [wpc EXCEPT ![i] = "returned"]
    /\ LET k == CHOOSE k \in DOMAIN job :
                    /\ job[k].state = "pending"
                    /\ \A m \in DOMAIN job : job[m].state = "pending" => k <= m
       IN  job' = [job EXCEPT ![k] = [state |-> "ok", value |-> with_profile(dbs[i], res[i])]]
    /\ UNCHANGED <<config, aux, res, pc, matches, results, bookmarks, bm_results>>

\* os.remove(history_db); return res; sql_with_profile adds the provenance
Remove(i) ==
    /\ pc = "map" /\ wpc[i] = "fetched"
    /\ tmp' = tmp \ {i}
    /\ wpc' = [wpc EXCEPT ![i] = "returned"]
    /\ job' = [job EXCEPT ![i] = [state |-> "ok", value |-> with_profile(dbs[i], res[i])]]
    /\ UNCHANGED <<config, aux, res, pc, matches, results, bookmarks, bm_results>>

(***************************************************************************)
(* get_histories (chrom_history.py:210): p.map returns when every task     *)
(* has a result.                                                           *)
(***************************************************************************)
\* Pool(len(dbs)): the number of worker threads the pool starts
pool_size == Len(dbs)

AllTasksDone == \A i \in DOMAIN job : job[i].state # "pending"

\* every task succeeded: merge, search, deduplicate, filter, sort, truncate
Return ==
    /\ pc = "map" /\ AllTasksDone
    /\ \A i \in DOMAIN job : job[i].state = "ok"
    /\ matches' = Concat([i \in DOMAIN job |-> job[i].value])
    /\ results' = post_process([i \in DOMAIN job |-> job[i].value], query)
    /\ pc' = "done"
    /\ UNCHANGED <<config, aux, wpc, tmp, res, job, bookmarks, bm_results>>

\* a task ended with an exception: p.map raises it in the caller
MapRaises ==
    /\ pc = "map" /\ AllTasksDone
    /\ \E i \in DOMAIN job : job[i].state = "error"
    /\ pc' = "raised"
    /\ UNCHANGED <<config, aux, wpc, tmp, res, job, matches, results, bookmarks, bm_results>>

Next ==
    \/ \E i \in DOMAIN dbs : Copy(i)
    \/ \E i \in DOMAIN dbs : CopyFails(i)
    \/ \E i \in DOMAIN dbs : Query(i)
    \/ \E i \in DOMAIN dbs : QueryFails(i)
    \/ \E i \in DOMAIN dbs : Remove(i)
    \/ Return
    \/ MapRaises

Spec == Init /\ [][Next]_vars

\* the steps of the worker that runs the task of source i
Worker(i) ==
    /\ i \in DOMAIN dbs
    /\ (Copy(i) \/ CopyFails(i) \/ Query(i) \/ QueryFails(i) \/ Remove(i))

\* every worker thread of the pool and the caller keep being scheduled
FairSpec ==
    /\ Spec
    /\ \A i \in 1..(MaxSources + 1) : WF_vars(Worker(i))
    /\ WF_vars(Return \/ MapRaises)

(***************************************************************************)
(* The two query engines applied to one record: the history search's       *)
(* search_in_tuples_with_profile and the bookmark search's                 *)
(* match_with_profile_info.                                                *)
(***************************************************************************)
QueryAlphabet == {"a", "A", "1", "&", "|", " ", "U+0302"}

Queries == UNION {[1..n -> QueryAlphabet] : n \in 0..MaxQueryLen}

SampleUrls == {<<"a">>, <<"b">>}

SampleTitles == {<<"A">>, <<"1", "a">>, <<"a", "U+0302">>, <<"U+00E2">>}

\* (visit_count, last_visit, browser, profile, icon)
SampleProvenance ==
    { <<1, 1, <<"b">>, <<"a">>, <<>> >>,
      <<2, 12, <<"A">>, <<"1">>, << <<"a", "b">> >> >> }

\* (url, title, visit_count, last_visit, browser, profile, icon_path)
SampleTuples ==
    { <<u, t, p[1], p[2], p[3], p[4], p[5]>> :
        u \in SampleUrls, t \in SampleTitles, p \in SampleProvenance }

\* (title, url, browser, profile, icon_path) of the same page as a bookmark
as_bookmark(t) == <<t[2], t[1], t[5], t[6], t[7]>>

InitQuery ==
    /\ query \in Queries
    /\ search_operator_default \in BOOLEAN
    /\ \E t \in SampleTuples :
        /\ matches = <<t>>
        /\ bookmarks = <<as_bookmark(t)>>
    /\ pc = "search"
    /\ results = <<>>
    /\ bm_results = <<>>
    /\ sort_recent = FALSE
    /\ ignored_domains = <<>>
    /\ dbs = <<>> /\ store = <<>> /\ wpc = <<>> /\ res = <<>> /\ job = <<>>
    /\ tmp = {}
    /\ AuxIdle

\* get_histories line 227
HistorySearch ==
    /\ pc = "search"
    /\ results' = search_in_tuples_with_profile(matches, query)
    /\ pc' = "history_searched"
    /\ UNCHANGED <<config, aux, wpc, tmp, res, job, matches, bookmarks, bm_results>>

\* chrom_bookmarks.py main line 408
BookmarkSearch ==
    /\ pc = "history_searched"
    /\ bm_results' = match_with_profile_info(query, bookmarks)
    /\ pc' = "searched"
    /\ UNCHANGED <<config, aux, wpc, tmp, res, job, matches, results, bookmarks>>

NextQuery == HistorySearch \/ BookmarkSearch

SpecQuery == InitQuery /\ [][NextQuery]_vars


(***************************************************************************)
(* Properties of get_histories (specifications Spec and FairSpec).         *)
(***************************************************************************)
WorkerEnded(i) == wpc[i] \in {"returned", "raised", "exited"}

\* what the healthy sources alone yield for the query
HealthyResult ==
    post_process([i \in DOMAIN dbs |->
                    IF store[i].state = "ok"
                    THEN with_profile(dbs[i], store[i].rows)
                    ELSE <<>>],
                 query)

\* C1: a source whose store cannot be copied or queried contributes zero
\* rows and the call still returns the matches of the other sources: the
\* call never raises, and once every extraction has ended it can return,
\* and what it returns is the result over the healthy sources.
C1_FailedSourceYieldsNoRows ==
    /\ pc # "raised"
    /\ (pc = "map" /\ \A i \in DOMAIN wpc : WorkerEnded(i)) => ENABLED Return
    /\ pc = "done" => results = HealthyResult

\* C2: every call of sql that created a temporary copy has removed it when
\* the call has ended, on every exit path.
C2_TemporaryCopyRemoved ==
    \A i \in DOMAIN wpc : WorkerEnded(i) => i \notin tmp

\* C3: under fair scheduling get_histories eventually returns a result list,
\* also when the extraction of a source fails.
C3_EventuallyReturns == <>(pc = "done")

\* (title, url) of a history tuple
TitleUrl(t) == <<t[2], t[1]>>

\* the records that reach removeDuplicates in get_histories
Found == search_in_tuples_with_profile(matches, query)

\* C4: the list get_histories returns never holds two records with the same
\* (title, url) pair.
C4_NoTwoRecordsShareTitleUrl ==
    pc = "done" =>
        \A i, j \in 1..Len(results) :
            i # j => TitleUrl(results[i]) # TitleUrl(results[j])

\* a returned list out of which a duplicate was dropped
C4_Witness ==
    /\ pc = "done"
    /\ results # <<>>
    /\ \E i, j \in 1..Len(Found) : i < j /\ TitleUrl(Found[i]) = TitleUrl(Found[j])

\* C5: of several matched records with the same (title, url) pair the first
\* one in iteration order survives, with its visit count, last visit,
\* browser, profile and icon.
C5_FirstOccurrenceSurvives ==
    pc = "done" =>
        \A k \in 1..Len(results) :
            \E f \in 1..Len(Found) :
                /\ TitleUrl(Found[f]) = TitleUrl(results[k])
                /\ \A e \in 1..(f - 1) : TitleUrl(Found[e]) # TitleUrl(results[k])
                /\ results[k] = Found[f]

(***************************************************************************)
(* Properties of the query engines (specification SpecQuery).              *)
(***************************************************************************)
\* the record searched, as the history search and the bookmark search see it
Rec == matches[1]

Title == Rec[2]

Url == Rec[1]

HistoryMatched == results # <<>>

BookmarkMatched == bm_results # <<>>

\* two code points that differ at most in case
SameLetter(c, d) ==
    \/ c = d
    \/ {c, d} = {"a", "A"}
    \/ {c, d} = {"U+00E2", "U+00C2"}

\* term is a case-insensitive substring of field
InsensitiveIn(term, field) ==
    \E i \in 0..(Len(field) - Len(term)) :
        \A k \in 1..Len(term) : SameLetter(field[i + k], term[k])

TermMatches(term) == InsensitiveIn(term, Title) \/ InsensitiveIn(term, Url)

EveryTermMatches(terms) == \A k \in 1..Len(terms) : TermMatches(terms[k])

SomeTermMatches(terms) == \E k \in 1..Len(terms) : TermMatches(terms[k])

Normalized(terms) == [k \in 1..Len(terms) |-> NFC(terms[k])]

\* C6: the terms and the operator as the priority rule states them: `&`
\* first, then `|`, then whitespace with the configured default.
PriorityTerms ==
    IF Has(query, "&") THEN Split(query, "&")
    ELSE IF Has(query, "|") THEN Split(query, "|")
    ELSE SplitWhitespace(query)

PriorityIsAnd ==
    IF Has(query, "&") THEN TRUE
    ELSE IF Has(query, "|") THEN FALSE
    ELSE search_operator_default

PriorityMatch(terms) ==
    IF PriorityIsAnd THEN EveryTermMatches(terms) ELSE SomeTermMatches(terms)

\* C6: both searches select terms and operator by the priority rule, also
\* for a query that holds `&` and `|`.
C6_OperatorPriority ==
    pc = "searched" =>
        /\ HistoryMatched <=> PriorityMatch(Normalized(PriorityTerms))
        /\ BookmarkMatched <=> PriorityMatch(PriorityTerms)

\* C7: a query with `&` and no `|` is evaluated as AND, a query with `|` and
\* no `&` as OR, whatever the configured default is.
C7_ExplicitOperatorOverridesDefault ==
    pc = "searched" =>
        /\ (Has(query, "&") /\ ~Has(query, "|")) =>
              /\ HistoryMatched <=> EveryTermMatches(Normalized(Split(query, "&")))
              /\ BookmarkMatched <=> EveryTermMatches(Split(query, "&"))
        /\ (Has(query, "|") /\ ~Has(query, "&")) =>
              /\ HistoryMatched <=> SomeTermMatches(Normalized(Split(query, "|")))
              /\ BookmarkMatched <=> SomeTermMatches(Split(query, "|"))

\* `a&1` with the default OR on a record that holds a but not 1: AND decides
C7_Witness ==
    /\ pc = "searched"
    /\ ~search_operator_default
    /\ query = <<"a", "&", "1">>
    /\ Title = <<"A">> /\ Url = <<"b">>
    /\ ~HistoryMatched /\ ~BookmarkMatched

\* the operator each search evaluates its term list with
HistoryUsesAnd ==
    IF Has(query, "|") THEN FALSE
    ELSE IF Has(query, "&") THEN TRUE
    ELSE search_operator_default

BookmarkUsesAnd == bm_search_operator(query) \in {"&", "AND"}

\* C8: under AND a record matches iff every term is a case-insensitive
\* substring of its title or url, under OR iff at least one term is.
C8_AndOrSemantics ==
    pc = "searched" =>
        /\ HistoryMatched <=>
              IF HistoryUsesAnd THEN EveryTermMatches(get_search_terms(query))
              ELSE SomeTermMatches(get_search_terms(query))
        /\ BookmarkMatched <=>
              IF BookmarkUsesAnd THEN EveryTermMatches(bm_search_terms(query))
              ELSE SomeTermMatches(bm_search_terms(query))

\* terms a and 1 on a record that matches only a (by case folding A): the OR
\* query matches
C8_Witness ==
    /\ pc = "searched"
    /\ query = <<"a", "|", "1">>
    /\ Title = <<"A">> /\ Url = <<"b">>
    /\ HistoryMatched /\ BookmarkMatched

\* C9: for the empty query the term list is empty and every record matches,
\* with the default AND and with the default OR.
C9_EmptyQueryMatchesAll ==
    (pc = "searched" /\ query = <<>>) =>
        /\ get_search_terms(query) = <<>>
        /\ bm_search_terms(query) = <<>>
        /\ results = matches
        /\ bm_results = bookmarks

\* the sample records with the title and url of the record searched
SamePage == {t \in SampleTuples : t[1] = Url /\ t[2] = Title}

\* C10: a query none of whose terms is in the title or the url matches no
\* record, whatever the visit count, last visit, browser, profile and icon
\* hold; and two records with the same title and url are both matched or
\* both not, in the history search and in the bookmark search.
C10_OnlyTitleAndUrlAreSearched ==
    pc = "searched" =>
        /\ (get_search_terms(query) # <<>>
            /\ ~SomeTermMatches(get_search_terms(query))) => ~HistoryMatched
        /\ (bm_search_terms(query) # <<>>
            /\ ~SomeTermMatches(bm_search_terms(query))) => ~BookmarkMatched
        /\ \A t \in SamePage :
            /\ HistoryMatched <=> search_in_tuples_with_profile(<<t>>, query) # <<>>
            /\ BookmarkMatched <=>
                  match_with_profile_info(query, <<as_bookmark(t)>>) # <<>>

\* the term 1 is in the visit count, the last visit and the profile name of
\* the record, not in its title or url: no match
C10_Witness ==
    /\ pc = "searched"
    /\ query = <<"1">>
    /\ Title = <<"A">> /\ Url = <<"b">>
    /\ Rec[3] = 2 /\ Rec[4] = 12 /\ Rec[6] = <<"1">>
    /\ ~HistoryMatched /\ ~BookmarkMatched

\* C19: no step of get_histories changes the content of a source's History
\* file, whether the extraction succeeds or fails.
C19_StoreNeverChanged == [][store' = store]_vars

\* one source has been extracted, the extraction of another has failed
C19_Witness ==
    /\ pc = "map"
    /\ \E i, j \in DOMAIN dbs : wpc[i] = "returned" /\ wpc[j] = "exited"

\* a cap on the pool below the largest number of sources explored
PoolCap == MaxSources - 1

\* C23: the pool has as many worker threads as there are sources, but never
\* more than the cap, and every source has exactly one invocation of the
\* extractor.
C23_PoolSizeCapped ==
    /\ pool_size = IF Len(dbs) < PoolCap THEN Len(dbs) ELSE PoolCap
    /\ DOMAIN wpc = DOMAIN dbs

\* the rows of every source with its provenance, in source-list order
RowsInSourceOrder == [i \in DOMAIN dbs |-> with_profile(dbs[i], store[i].rows)]

\* C25: the list get_histories returns is fixed by the source list, the
\* stores, the query and the configuration: the rows are merged in
\* source-list order under every interleaving of the workers.
C25_ResultIndependentOfScheduling ==
    pc = "done" =>
        /\ matches = Concat(RowsInSourceOrder)
        /\ results = post_process(RowsInSourceOrder, query)

\* a returned call over two sources for which the merge order matters
C25_Witness ==
    /\ pc = "done"
    /\ Len(dbs) = 2
    /\ results # post_process(<<RowsInSourceOrder[2], RowsInSourceOrder[1]>>, query)

\* C27: the history matcher and the bookmark matcher are one query engine:
\* for every query, default operator and (title, url) pair one accepts the
\* record iff the other does.
C27_MatchersAgree ==
    pc = "searched" => (HistoryMatched <=> BookmarkMatched)

\* the query without its last character
QueryFront == SubSeq(query, 1, Len(query) - 1)

\* the query is a term (not empty, no operator, no whitespace) and then c
TermThen(c) ==
    /\ Len(query) >= 2
    /\ query[Len(query)] = c
    /\ \A k \in 1..(Len(query) - 1) : query[k] \notin {"&", "|", " "}

\* how often c stands in the query
Occurrences(c) == Cardinality({k \in 1..Len(query) : query[k] = c})

\* C29: the terms of a split on `&` or `|` are all kept, empty ones
\* included, and an empty term matches every record: x| matches every
\* record and x& matches the records x matches.
C29_EmptyTermsAreKept ==
    pc = "searched" =>
        /\ Has(query, "&") =>
              /\ Len(get_search_terms(query)) = 1 + Occurrences("&")
              /\ Len(bm_search_terms(query)) = 1 + Occurrences("&")
        /\ (Has(query, "|") /\ ~Has(query, "&")) =>
              /\ Len(get_search_terms(query)) = 1 + Occurrences("|")
              /\ Len(bm_search_terms(query)) = 1 + Occurrences("|")
        /\ TermThen("|") => (HistoryMatched /\ BookmarkMatched)
        /\ TermThen("&") =>
              /\ HistoryMatched <=> search_in_tuples_with_profile(matches, QueryFront) # <<>>
              /\ BookmarkMatched <=> match_with_profile_info(QueryFront, bookmarks) # <<>>

\* the query 1| finds a record that has no 1 in title or url
C29_Witness ==
    /\ pc = "searched"
    /\ query = <<"1", "|">>
    /\ Title = <<"A">> /\ Url = <<"b">>
    /\ HistoryMatched /\ BookmarkMatched

\* r is row k of source i with the browser, profile and icon of source i
IsRowOf(r, i, k) ==
    r = <<store[i].rows[k][1], store[i].rows[k][2], store[i].rows[k][3],
          store[i].rows[k][4], dbs[i][1], dbs[i][2], dbs[i][4]>>

\* the url or the title of r holds the term, whatever the case
FieldsHold(r, term) == InsensitiveIn(term, r[1]) \/ InsensitiveIn(term, r[2])

\* r matches the query, whose words are joined by the configured default
MatchesQuery(r) ==
    LET words == SplitWhitespace(query)
    IN  IF search_operator_default
        THEN \A w \in 1..Len(words) : FieldsHold(r, words[w])
        ELSE \E w \in 1..Len(words) : FieldsHold(r, words[w])

\* C28: every record get_histories returns is a row of one of the sources
\* with the browser, profile and icon of that source, matches the query on
\* url or title and has no ignored domain in its url.
C28_ResultsAreSourceRows ==
    pc = "done" =>
        \A n \in 1..Len(results) :
            /\ \E i \in DOMAIN dbs : \E k \in 1..Len(store[i].rows) :
                  IsRowOf(results[n], i, k)
            /\ MatchesQuery(results[n])
            /\ \A e \in 1..Len(ignored_domains) :
                  ~Contains(results[n][1], ignored_domains[e])

\* records of two sources are returned, each with its own browser
C28_Witness ==
    /\ pc = "done"
    /\ query = <<"a">>
    /\ \E m, n \in 1..Len(results) :
          /\ results[m][5] # results[n][5]
          /\ \E k \in 1..Len(store[1].rows) : IsRowOf(results[m], 1, k)
          /\ \E k \in 1..Len(store[2].rows) : IsRowOf(results[n], 2, k)

(***************************************************************************)
(* The stages of the post-processing, each applied to a list of records    *)
(* (specification SpecPost).                                               *)
(***************************************************************************)
MaxRows == 3

\* removeDuplicates of chrom_bookmarks.py: list(dict.fromkeys(li)), the key
\* is the whole tuple and the first occurrence stays
bm_removeDuplicates(li) ==
    SelectSeq([i \in 1..Len(li) |-> <<i, li[i]>>],
              LAMBDA e : \A j \in 1..(e[1] - 1) : li[j] # e[2])

bm_removeDuplicates_values(li) ==
    LET kept == bm_removeDuplicates(li)
    IN  [p \in 1..Len(kept) |-> kept[p][2]]

\* (url, title, visit_count, last_visit, browser, profile, icon_path)
PostTuples ==
    { <<(<<"a">>), (<<"A">>), 5, 1, <<"b">>, <<"P", "1">>, <<>> >>,
      <<(<<"a">>), (<<"A">>), 2, 2, <<"a", "b">>, <<"P", "2">>, << <<"i", "c">> >> >>,
      <<(<<"b">>), (<<"b">>), 3, 3, <<"b">>, <<"P", "1">>, <<>> >>,
      <<(<<"a">>), (<<"b">>), 1, 4, <<"b">>, <<"P", "1">>, <<>> >>,
      <<(<<"a", "b">>), (<<"A">>), 3, 1, <<"a", "b">>, <<"P", "2">>, <<>> >> }

PostLists == UNION {[1..n -> PostTuples] : n \in 0..MaxRows}

\* ignored_domains after the split on commas
PostIgnoredDomains ==
    { <<>>, << <<"b">> >>, << <<"a", "b">> >>, << <<"b">>, <<"a", "b">> >> }

InitPost ==
    /\ \E li \in PostLists :
        /\ matches = li
        /\ bookmarks = [k \in 1..Len(li) |-> as_bookmark(li[k])]
    /\ ignored_domains \in PostIgnoredDomains
    /\ sort_recent \in BOOLEAN
    /\ query = <<>>
    /\ search_operator_default = TRUE
    /\ pc = "post"
    /\ results = <<>>
    /\ bm_results = <<>>
    /\ dbs = <<>> /\ store = <<>> /\ wpc = <<>> /\ res = <<>> /\ job = <<>>
    /\ tmp = {}
    /\ AuxIdle

\* chrom_history.py:229
Deduplicate ==
    /\ pc = "post"
    /\ results' = removeDuplicates(matches)
    /\ pc' = "deduplicated"
    /\ UNCHANGED <<config, aux, wpc, tmp, res, job, matches, bookmarks, bm_results>>

\* chrom_history.py:232, without the test of line 231
FilterDomains ==
    /\ pc = "post"
    /\ results' = remove_ignored_domains(matches, ignored_domains)
    /\ pc' = "filtered"
    /\ UNCHANGED <<config, aux, wpc, tmp, res, job, matches, bookmarks, bm_results>>

\* chrom_bookmarks.py:412
BookmarkDeduplicate ==
    /\ pc = "post"
    /\ bm_results' = bm_removeDuplicates_values(bookmarks)
    /\ pc' = "bm_deduplicated"
    /\ UNCHANGED <<config, aux, wpc, tmp, res, job, matches, results, bookmarks>>

NextPost == Deduplicate \/ FilterDomains \/ BookmarkDeduplicate

SpecPost == InitPost /\ [][NextPost]_vars

\* number of positions of li that hold r
Count(li, r) == Cardinality({i \in 1..Len(li) : li[i] = r})

\* sub is li with some positions left out
RECURSIVE IsSubsequence(_, _)
IsSubsequence(sub, li) ==
    IF sub = <<>> THEN TRUE
    ELSE IF li = <<>> THEN FALSE
    ELSE IF Head(sub) = Head(li) THEN IsSubsequence(Tail(sub), Tail(li))
    ELSE IsSubsequence(sub, Tail(li))

\* the url of r holds none of the ignored domains
NotIgnored(r) == \A k \in 1..Len(ignored_domains) : ~Contains(r[1], ignored_domains[k])

\* C11: a record is in the output of remove_ignored_domains iff its url holds
\* none of the listed domains; the survivors keep order and content; with an
\* empty list the output is the input.
C11_DomainFilter ==
    pc = "filtered" =>
        /\ \A r \in PostTuples :
              Count(results, r) = IF NotIgnored(r) THEN Count(matches, r) ELSE 0
        /\ IsSubsequence(results, matches)
        /\ ignored_domains = <<>> => results = matches

\* of two records the one whose url holds the first of two ignored domains
\* (and not the second) is dropped, the other one stays
C11_Witness ==
    /\ pc = "filtered"
    /\ Len(ignored_domains) = 2
    /\ Len(matches) = 2 /\ Len(results) = 1
    /\ matches[1][1] = <<"b">>
    /\ results[1] = matches[2]

\* C14: deduplication is idempotent and never lengthens the list, in the
\* history search and in the bookmark search.
C14_DedupIdempotent ==
    /\ pc = "deduplicated" =>
          /\ removeDuplicates(results) = results
          /\ Len(results) <= Len(matches)
    /\ pc = "bm_deduplicated" =>
          /\ bm_removeDuplicates_values(bm_results) = bm_results
          /\ Len(bm_results) <= Len(bookmarks)

\* three entries with one key, of which one is left
C14_Witness ==
    /\ pc = "deduplicated"
    /\ Len(matches) = 3
    /\ Len(results) = 1

\* C16: after the bookmark search's removeDuplicates no two records have the
\* same url, and of the records with one url the first occurrence is kept.
C16_BookmarkUrlIsKey ==
    pc = "bm_deduplicated" =>
        /\ \A i, j \in 1..Len(bm_results) :
              i # j => bm_results[i][2] # bm_results[j][2]
        /\ \A i \in 1..Len(bm_results) :
              \E f \in 1..Len(bookmarks) :
                  /\ bookmarks[f] = bm_results[i]
                  /\ \A e \in 1..(f - 1) : bookmarks[e][2] # bm_results[i][2]

(***************************************************************************)
(* get_histories over History files with more rows than the result limit   *)
(* (specification SpecRank).                                               *)
(***************************************************************************)
MaxRanked == 40

\* the rows of a History file with len visited pages: the visit counts
\* repeat every `cycle` rows, the last visits fall from len to 1 as the
\* ORDER BY of the SELECT leaves them
RankRows(len, cycle) ==
    [k \in 1..len |->
        <<(IF k % 7 = 0 THEN <<"b">> ELSE <<"a">>) \o StrInt(k),
          IF cycle > len THEN <<"a">> ELSE <<"A">>,
          (k * 7) % cycle,
          len + 1 - k>>]

RankLengths == {MaxRanked - 10, MaxRanked}

RankStores ==
    { [state |-> "ok", rows |-> RankRows(len, cycle)] :
        len \in RankLengths, cycle \in {5, MaxRanked + 3} }

InitRank ==
    /\ query = <<"a">>
    /\ search_operator_default = TRUE
    /\ sort_recent \in BOOLEAN
    /\ ignored_domains \in IgnoredDomainChoices
    /\ \E n \in 1..2 :
        /\ dbs = [i \in 1..n |-> Source(i)]
        /\ store \in [1..n -> RankStores]
        /\ wpc = [i \in 1..n |-> "queued"]
        /\ res = [i \in 1..n |-> <<>>]
        /\ job = [i \in 1..n |-> Pending]
    /\ tmp = {}
    /\ pc = "map"
    /\ matches = <<>>
    /\ results = <<>>
    /\ bookmarks = <<>>
    /\ bm_results = <<>>
    /\ AuxIdle

NextRank ==
    \/ \E i \in DOMAIN dbs : Copy(i)
    \/ \E i \in DOMAIN dbs : Query(i)
    \/ \E i \in DOMAIN dbs : Remove(i)
    \/ Return

SpecRank == InitRank /\ [][NextRank]_vars

\* the merged list after search, deduplication and domain filter: the list
\* get_histories hands to the sort
Candidates ==
    LET unique == removeDuplicates(search_in_tuples_with_profile(matches, query))
    IN  IF ignored_domains # <<>>
        THEN remove_ignored_domains(unique, ignored_domains)
        ELSE unique

\* lastVisit for recent ranking, visitCount otherwise
SortKey(r) == IF sort_recent THEN r[4] ELSE r[3]

\* where r stands in the list cand
IndexIn(cand, r) == CHOOSE p \in 1..Len(cand) : cand[p] = r

\* C12: the output of get_histories is descending by lastVisit for recent
\* ranking and by visitCount otherwise, and records with equal key keep
\* the order they had before the sort.
C12_SortedStable ==
    pc = "done" =>
        LET cand == Candidates
            at == [i \in 1..Len(results) |->
                      IF \E p \in 1..Len(cand) : cand[p] = results[i]
                      THEN IndexIn(cand, results[i]) ELSE 0]
        IN  /\ \A i \in 1..Len(results) : at[i] > 0
            /\ \A i, j \in 1..Len(results) :
                  i < j =>
                     /\ SortKey(results[i]) >= SortKey(results[j])
                     /\ SortKey(results[i]) = SortKey(results[j]) => at[i] < at[j]

\* an output with two neighbours of equal visit count and two of unequal
C12_Witness ==
    /\ pc = "done"
    /\ ~sort_recent
    /\ Len(results) = ResultLimit
    /\ results[1][3] = results[2][3]
    /\ \E i \in 1..(Len(results) - 1) : results[i][3] > results[i + 1][3]

\* how many records of cand the sort puts before cand[j]
SortRank(cand, j) ==
    Cardinality({i \in 1..Len(cand) :
                    \/ SortKey(cand[i]) > SortKey(cand[j])
                    \/ SortKey(cand[i]) = SortKey(cand[j]) /\ i < j})

\* C13: get_histories returns at most 30 records, the first 30 of the
\* sorted, deduplicated, domain-filtered match list: a record is returned
\* iff fewer than 30 records sort before it, at the place of its rank.
C13_TruncationAfterSort ==
    pc = "done" =>
        LET cand == Candidates
            rank == [j \in 1..Len(cand) |-> SortRank(cand, j)]
        IN  /\ Len(results) <= ResultLimit
            /\ Len(results) = IF Len(cand) < ResultLimit THEN Len(cand) ELSE ResultLimit
            /\ \A j \in 1..Len(cand) :
                  rank[j] < ResultLimit => results[rank[j] + 1] = cand[j]

\* MaxRanked matching records with distinct visit counts, recent mode off:
\* the 30 highest counts are returned, highest first
C13_Witness ==
    /\ pc = "done"
    /\ ~sort_recent
    /\ Len(matches) = MaxRanked
    /\ ignored_domains = <<>>
    /\ \A i, j \in 1..MaxRanked : i # j => matches[i][3] # matches[j][3]
    /\ Len(results) = ResultLimit
    /\ \A i \in 1..(ResultLimit - 1) : results[i][3] > results[i + 1][3]
    /\ \A j \in 1..MaxRanked :
          (\E i \in 1..ResultLimit : results[i] = matches[j])
              <=> Cardinality({k \in 1..MaxRanked : matches[k][3] > matches[j][3]}) < ResultLimit

(***************************************************************************)
(* The last-visit column of the Chromium SELECT (specification SpecTime).  *)
(* A raw last_visit_time is the triple <<h, m, l>> of its base-1000000     *)
(* digits (h * 10^12 + m * 10^6 + l microseconds), a number of seconds the *)
(* pair <<h, l>> with value h * 10^6 + l and 0 <= l < 10^6.                *)
(***************************************************************************)
\* the divisor of urls.last_visit_time in the SELECT
MicrosPerSecond == 1000000

IsLeapYear(y) == (y % 4 = 0 /\ y % 100 # 0) \/ y % 400 = 0

\* days from the first day of year `from` to the first day of year `to`
DaysBetween(from, to) ==
    (to - from) * 365 + Cardinality({y \in from..(to - 1) : IsLeapYear(y)})

\* the negation of a number of seconds
NegSeconds(s) ==
    IF s[2] = 0 THEN <<0 - s[1], 0>> ELSE <<0 - s[1] - 1, MicrosPerSecond - s[2]>>

AddSeconds(s, t) ==
    LET low == s[2] + t[2]
    IN  <<s[1] + t[1] + low \div MicrosPerSecond, low % MicrosPerSecond>>

\* strftime('%s', '<year>-01-01') for a year before 1970: the seconds from
\* 1970-01-01 to that day, 86400 a day, below zero
strftime_s(year) ==
    LET x == DaysBetween(year, 1970) * 864
    IN  NegSeconds(<<x \div 10000, (x % 10000) * 100>>)

\* a SELECT that leaves the offset out
chromium_last_visit_without_offset(v) == <<v[1], v[2]>>

\* urls.last_visit_time/1000000 + (strftime('%s', '1601-01-01')): an integer
\* division, then the sum with the text converted to an integer
chromium_last_visit(v) == AddSeconds(<<v[1], v[2]>>, strftime_s(1601))

\* raw last_visit_time values: never visited, around 1970-01-01, the first
\* second of 2021 and later, at both ends of a second
RawTimes ==
    { <<h, m, l>> : h \in {0, 11644, 13253, 13569},
                    m \in {0, 473599, 473600, 932800, 999999},
                    l \in {0, 1, 999999} }

InitTime ==
    /\ last_visit_time \in RawTimes
    /\ last_visit = <<>>
    /\ fs = <<>> /\ bm_i = 0 /\ wf = <<>>
    /\ history_db = <<>> /\ ignored_domains_env = <<>>
    /\ query = <<>>
    /\ search_operator_default = TRUE
    /\ sort_recent = FALSE
    /\ ignored_domains = <<>>
    /\ dbs = <<>> /\ store = <<>> /\ wpc = <<>> /\ res = <<>> /\ job = <<>>
    /\ tmp = {}
    /\ pc = "select"
    /\ matches = <<>> /\ results = <<>> /\ bookmarks = <<>> /\ bm_results = <<>>

\* cursor.execute(select_statement) on one row of urls
ChromiumSelect ==
    /\ pc = "select"
    /\ last_visit' = chromium_last_visit(last_visit_time)
    /\ pc' = "selected"
    /\ UNCHANGED <<config, last_visit_time, fs, bm_i, wf, history_db,
                   ignored_domains_env, wpc, tmp, res, job,
                   matches, results, bookmarks, bm_results>>

NextTime == ChromiumSelect

SpecTime == InitTime /\ [][NextTime]_vars

history_not_found_item == <<"Browser History not found!">>

\* chrom_history.py:571
history_empty_item == <<"Nothing found in History!">>

\* chrom_bookmarks.py:449
bookmark_empty_item == <<"No Bookmark found!">>

\* (name, url) pairs as get_all_urls or get_safari_bookmarks_json return them
BookmarkRows ==
    { << <<(<<"A">>), (<<"a">>)>> >>,
      << <<(<<"A">>), (<<"a">>)>>, <<(<<"b">>), (<<"b">>)>> >> }

\* a Bookmarks file: sound ("ok"), not JSON, without "roots" or not a
\* property list ("malformed"), or not readable ("unreadable")
BookmarkStates == {"ok", "malformed", "unreadable"}

BookmarkStores == [state : BookmarkStates, rows : BookmarkRows]

MainQueries == {<<"a">>, <<"1">>}

InitMain ==
    /\ query \in MainQueries
    /\ search_operator_default \in BOOLEAN
    /\ sort_recent = FALSE
    /\ ignored_domains = <<>>
    /\ \E n \in 0..MaxSources :
        /\ dbs = [i \in 1..n |-> Source(i)]
        /\ \/ /\ pc = "history_main"
              /\ store \in [1..n -> Stores]
           \/ /\ pc = "bookmarks_main"
              /\ store \in [1..n -> BookmarkStores]
        /\ wpc = [i \in 1..n |-> "queued"]
        /\ res = [i \in 1..n |-> <<>>]
        /\ job = [i \in 1..n |-> Pending]
    /\ tmp = {}
    /\ matches = <<>>
    /\ results = <<>>
    /\ bookmarks = <<>>
    /\ bm_results = <<>>
    /\ AuxIdle

main_unchanged ==
    <<last_visit_time, last_visit, fs, history_db, ignored_domains_env,
      wpc, tmp, res, job, bookmarks>>

\* chrom_history.py:514-524: no source, one item, sys.exit(0)
HistoryNotFound ==
    /\ pc = "history_main"
    /\ Len(dbs) = 0
    /\ wf' = <<history_not_found_item>>
    /\ pc' = "history_exit"
    /\ UNCHANGED <<config, main_unchanged, bm_i, matches, results, bm_results>>

\* chrom_history.py:528: get_histories(locked_history_dbs, search_term)
HistoryGetHistories ==
    /\ pc = "history_main"
    /\ Len(dbs) > 0
    /\ pc' = "map"
    /\ UNCHANGED <<config, aux, wpc, tmp, res, job, matches, results, bookmarks, bm_results>>

\* the title main gives the item of a result: i[1] if i[1] else the host
item_title(name) == name

\* chrom_history.py:532-576: one item per result, or the one item of 569
HistoryWrite ==
    /\ pc = "done"
    /\ wf' = IF Len(results) > 0
             THEN [k \in 1..Len(results) |-> item_title(results[k][2])]
             ELSE <<history_empty_item>>
    /\ pc' = "history_written"
    /\ UNCHANGED <<config, main_unchanged, bm_i, matches, results, bm_results>>

\* chrom_bookmarks.py:391-394: bms = paths_to_bookmarks(), matches = list()
BookmarksStart ==
    /\ pc = "bookmarks_main"
    /\ IF Len(dbs) > 0
       THEN pc' = "bookmarks_loop" /\ bm_i' = 1
       ELSE pc' = "bookmarks_write" /\ bm_i' = bm_i
    /\ UNCHANGED <<config, main_unchanged, wf, matches, results, bm_results>>

\* chrom_bookmarks.py:396-409, one pass of the loop over bms: the file is
\* read, the bookmarks get their provenance, the matched ones are kept
BookmarksLoad ==
    /\ pc = "bookmarks_loop"
    /\ bm_i <= Len(dbs)
    /\ store[bm_i].state = "ok"
    /\ LET rows == store[bm_i].rows
           bookmarks_with_info ==
               [k \in 1..Len(rows) |->
                   <<rows[k][1], rows[k][2], dbs[bm_i][1], dbs[bm_i][2], dbs[bm_i][4]>>]
       IN  bm_results' = bm_results \o match_with_profile_info(query, bookmarks_with_info)
    /\ bm_i' = bm_i + 1
    /\ UNCHANGED <<config, main_unchanged, wf, pc, matches, results>>

\* get_json_from_file or get_safari_bookmarks_json raises (JSONDecodeError,
\* KeyError, InvalidFileException, OSError): nothing in main catches it
BookmarksLoadRaises ==
    /\ pc = "bookmarks_loop"
    /\ bm_i <= Len(dbs)
    /\ store[bm_i].state # "ok"
    /\ pc' = "bookmarks_raised"
    /\ UNCHANGED <<config, main_unchanged, bm_i, wf, matches, results, bm_results>>

\* chrom_bookmarks.py:412-446: removeDuplicates, then one item per match
BookmarksItems ==
    /\ pc = "bookmarks_loop"
    /\ bm_i > Len(dbs)
    /\ bm_results' = bm_removeDuplicates_values(bm_results)
    /\ wf' = [k \in 1..Len(bm_results') |-> item_title(bm_results'[k][1])]
    /\ pc' = "bookmarks_write"
    /\ UNCHANGED <<config, main_unchanged, bm_i, matches, results>>

\* chrom_bookmarks.py:447-454
BookmarksWrite ==
    /\ pc = "bookmarks_write"
    /\ wf' = IF Len(wf) = 0 THEN <<bookmark_empty_item>> ELSE wf
    /\ pc' = "bookmarks_written"
    /\ UNCHANGED <<config, main_unchanged, bm_i, matches, results, bm_results>>

NextMain ==
    \/ HistoryNotFound
    \/ HistoryGetHistories
    \/ \E i \in DOMAIN dbs : Copy(i)
    \/ \E i \in DOMAIN dbs : CopyFails(i)
    \/ \E i \in DOMAIN dbs : Query(i)
    \/ \E i \in DOMAIN dbs : QueryFails(i)
    \/ \E i \in DOMAIN dbs : Remove(i)
    \/ Return
    \/ MapRaises
    \/ HistoryWrite
    \/ BookmarksStart
    \/ BookmarksLoad
    \/ BookmarksLoadRaises
    \/ BookmarksItems
    \/ BookmarksWrite

SpecMain == InitMain /\ [][NextMain]_vars

\* the sources whose Bookmarks file can be read and parsed
Readable == {i \in DOMAIN dbs : store[i].state = "ok"}

\* what the bookmark search has to produce from the readable sources alone
ReadableMatches ==
    LET found == [i \in DOMAIN dbs |->
                     IF i \in Readable
                     THEN match_with_profile_info(query,
                              [k \in 1..Len(store[i].rows) |->
                                  <<store[i].rows[k][1], store[i].rows[k][2],
                                    dbs[i][1], dbs[i][2], dbs[i][4]>>])
                     ELSE <<>>]
    IN  bm_removeDuplicates_values(Concat(found))

\* C17: in the bookmark search a source whose file cannot be read or
\* parsed contributes no rows, the other sources' matches are produced and
\* the search is never aborted.
C17_UnreadableBookmarkSourceSkipped ==
    /\ pc # "bookmarks_raised"
    /\ pc = "bookmarks_written" => bm_results = ReadableMatches

\* C18: with zero sources the items written differ from the items of a
\* search over one or more sources that matched nothing, in the history
\* search and in the bookmark search.
C18_NoSourcesDistinguishable ==
    /\ (pc \in {"history_exit", "history_written"} /\ Len(dbs) = 0)
           => wf # <<history_empty_item>>
    /\ (pc = "bookmarks_written" /\ Len(dbs) = 0)
           => wf # <<bookmark_empty_item>>

(***************************************************************************)
(* Discovery of one profile directory of a multi-profile browser by        *)
(* history_paths and by paths_to_bookmarks (specification SpecDiscover).   *)
(* fs holds the files: the Local State document, the directory's name and  *)
(* whether the picture file of the profile exists.  A JSON value is a      *)
(* triple <<type, text, members>>.                                         *)
(***************************************************************************)
JNull == <<"null", "", {}>>

JStr(text) == <<"str", text, {}>>

JList == <<"list", "", {}>>

JObj(members) == <<"obj", "", members>>

IsObj(v) == v[1] = "obj"

\* dict.get(key, default)
JGet(v, key, default) ==
    IF \E m \in v[3] : m[1] = key
    THEN (CHOOSE m \in v[3] : m[1] = key)[2]
    ELSE default

\* key in v, for a dict, a list (here: empty) or a str
JIn(key, v) ==
    IF v[1] = "obj" THEN \E m \in v[3] : m[1] = key
    ELSE IF v[1] = "str" THEN v[2] = key
    ELSE FALSE

\* how a call ends: with a value, or with an exception that leaves it
Ret(v) == [raised |-> "", value |-> v]

Raise(e) == [raised |-> e, value |-> <<>>]

\* chrom_history.py:46.  json.JSONDecodeError, KeyError and
\* FileNotFoundError are caught; AttributeError and TypeError are not
get_real_profile_name_from_history ==
    IF fs.local_state = "absent" THEN Ret(fs.profile_dir)
    ELSE IF fs.local_state = "invalid" THEN Ret(fs.profile_dir)
    ELSE IF ~IsObj(fs.doc) THEN Raise("AttributeError")
    ELSE LET profile == JGet(fs.doc, "profile", JObj({}))
         IN  IF ~IsObj(profile) THEN Raise("AttributeError")
             ELSE LET profiles == JGet(profile, "info_cache", JObj({}))
                  IN  IF profiles[1] = "null" THEN Raise("TypeError")
                      ELSE IF ~JIn(fs.profile_dir, profiles) THEN Ret(fs.profile_dir)
                      ELSE LET profile_info == JGet(profiles, fs.profile_dir, JNull)
                 IN  IF ~IsObj(profile_info) THEN Raise("AttributeError")
                     ELSE LET real_name == JGet(profile_info, "user_name", JStr(fs.profile_dir))
                          IN  Ret(real_name[2])

\* chrom_history.py:77
get_profile_icon_path_from_history ==
    IF fs.local_state = "absent" THEN Ret(<<>>)
    ELSE IF fs.local_state = "invalid" THEN Ret(<<>>)
    ELSE IF ~IsObj(fs.doc) THEN Raise("AttributeError")
    ELSE LET profile == JGet(fs.doc, "profile", JObj({}))
         IN  IF ~IsObj(profile) THEN Raise("AttributeError")
             ELSE LET profiles == JGet(profile, "info_cache", JObj({}))
                  IN  IF profiles[1] = "null" THEN Raise("TypeError")
                      ELSE IF ~JIn(fs.profile_dir, profiles) THEN Ret(<<>>)
                      ELSE LET profile_info == JGet(profiles, fs.profile_dir, JNull)
                 IN  IF ~IsObj(profile_info) THEN Raise("AttributeError")
                     ELSE LET picture_filename == JGet(profile_info, "gaia_picture_file_name", JNull)
                          IN  IF picture_filename[1] = "str" /\ picture_filename[2] # ""
                                 /\ fs.picture_is_file
                              THEN Ret(<<picture_filename[2]>>)
                              ELSE Ret(<<>>)

\* chrom_bookmarks.py:92
get_real_profile_name ==
    IF fs.local_state = "absent" THEN Ret(fs.profile_dir)
    ELSE IF fs.local_state = "invalid" THEN Ret(fs.profile_dir)
    ELSE IF ~IsObj(fs.doc) THEN Raise("AttributeError")
    ELSE LET profile == JGet(fs.doc, "profile", JObj({}))
         IN  IF ~IsObj(profile) THEN Raise("AttributeError")
             ELSE LET profiles == JGet(profile, "info_cache", JObj({}))
                  IN  IF profiles[1] = "null" THEN Raise("TypeError")
                      ELSE IF ~JIn(fs.profile_dir, profiles) THEN Ret(fs.profile_dir)
                      ELSE LET profile_info == JGet(profiles, fs.profile_dir, JNull)
                 IN  IF ~IsObj(profile_info) THEN Raise("AttributeError")
                     ELSE LET real_name == JGet(profile_info, "user_name", JStr(fs.profile_dir))
                          IN  Ret(real_name[2])

\* chrom_bookmarks.py:121
get_profile_icon_path ==
    IF fs.local_state = "absent" THEN Ret(<<>>)
    ELSE IF fs.local_state = "invalid" THEN Ret(<<>>)
    ELSE IF ~IsObj(fs.doc) THEN Raise("AttributeError")
    ELSE LET profile == JGet(fs.doc, "profile", JObj({}))
         IN  IF ~IsObj(profile) THEN Raise("AttributeError")
             ELSE LET profiles == JGet(profile, "info_cache", JObj({}))
                  IN  IF profiles[1] = "null" THEN Raise("TypeError")
                      ELSE IF ~JIn(fs.profile_dir, profiles) THEN Ret(<<>>)
                      ELSE LET profile_info == JGet(profiles, fs.profile_dir, JNull)
                 IN  IF ~IsObj(profile_info) THEN Raise("AttributeError")
                     ELSE LET picture_filename == JGet(profile_info, "gaia_picture_file_name", JNull)
                          IN  IF picture_filename[1] = "str" /\ picture_filename[2] # ""
                                 /\ fs.picture_is_file
                              THEN Ret(<<picture_filename[2]>>)
                              ELSE Ret(<<>>)

\* info_cache[<profile directory>] as a Local State may hold it
ProfileInfos ==
    { JObj({<<k, JStr(IF k = "name" THEN "Work" ELSE IF k = "user_name" THEN "u@x" ELSE "pic.png")>> :
               k \in keys}) :
        keys \in SUBSET {"name", "user_name", "gaia_picture_file_name"} }
    \cup {JStr("x"), JNull}

InfoCaches ==
    {JObj({}), JNull, JList} \cup { JObj({<<"Default", e>>}) : e \in ProfileInfos }

ProfileSections ==
    {JObj({}), JNull} \cup { JObj({<<"info_cache", c>>}) : c \in InfoCaches }

LocalStateDocs ==
    {JObj({}), JNull, JList} \cup { JObj({<<"profile", q>>}) : q \in ProfileSections }

LocalStates ==
    { [local_state |-> "absent", doc |-> JNull], [local_state |-> "invalid", doc |-> JNull] }
    \cup { [local_state |-> "json", doc |-> d] : d \in LocalStateDocs }

InitDiscover ==
    /\ \E ls \in LocalStates, dir \in {"Default", "Profile 1"}, pic \in BOOLEAN :
          fs = [local_state |-> ls.local_state, doc |-> ls.doc,
                profile_dir |-> dir, picture_is_file |-> pic]
    /\ pc \in {"history_paths", "paths_to_bookmarks"}
    /\ dbs = <<>>
    /\ last_visit_time = <<>> /\ last_visit = <<>> /\ bm_i = 0 /\ wf = <<>>
    /\ history_db = <<>> /\ ignored_domains_env = <<>>
    /\ query = <<>>
    /\ search_operator_default = TRUE
    /\ sort_recent = FALSE
    /\ ignored_domains = <<>>
    /\ store = <<>> /\ wpc = <<>> /\ res = <<>> /\ job = <<>>
    /\ tmp = {}
    /\ matches = <<>> /\ results = <<>> /\ bookmarks = <<>> /\ bm_results = <<>>

discover_unchanged ==
    <<query, search_operator_default, sort_recent, ignored_domains, store,
      aux, wpc, tmp, res, job, matches, results, bookmarks, bm_results>>

\* chrom_history.py:161-187: name and icon are resolved, the source is listed
HistoryPathsAppend ==
    /\ pc = "history_paths"
    /\ get_real_profile_name_from_history.raised = ""
    /\ get_profile_icon_path_from_history.raised = ""
    /\ dbs' = Append(dbs, <<"chrome", get_real_profile_name_from_history.value,
                            "History", get_profile_icon_path_from_history.value>>)
    /\ pc' = "history_paths_returned"
    /\ UNCHANGED discover_unchanged

\* an exception leaves get_real_profile_name_from_history or
\* get_profile_icon_path_from_history, and with it history_paths and main
HistoryPathsRaises ==
    /\ pc = "history_paths"
    /\ \/ get_real_profile_name_from_history.raised # ""
       \/ get_profile_icon_path_from_history.raised # ""
    /\ pc' = "history_paths_raised"
    /\ UNCHANGED <<dbs, discover_unchanged>>

\* chrom_bookmarks.py:204-233
PathsToBookmarksAppend ==
    /\ pc = "paths_to_bookmarks"
    /\ get_real_profile_name.raised = ""
    /\ get_profile_icon_path.raised = ""
    /\ dbs' = Append(dbs, <<"chrome", get_real_profile_name.value,
                            "Bookmarks", get_profile_icon_path.value>>)
    /\ pc' = "paths_to_bookmarks_returned"
    /\ UNCHANGED discover_unchanged

PathsToBookmarksRaises ==
    /\ pc = "paths_to_bookmarks"
    /\ \/ get_real_profile_name.raised # ""
       \/ get_profile_icon_path.raised # ""
    /\ pc' = "paths_to_bookmarks_raised"
    /\ UNCHANGED <<dbs, discover_unchanged>>

NextDiscover ==
    \/ HistoryPathsAppend
    \/ HistoryPathsRaises
    \/ PathsToBookmarksAppend
    \/ PathsToBookmarksRaises

SpecDiscover == InitDiscover /\ [][NextDiscover]_vars

\* the Local State document is no JSON, or the way from its root to the
\* entry of the profile directory misses a key or meets a value that is no
\* object
Malformed ==
    \/ fs.local_state = "invalid"
    \/ /\ fs.local_state = "json"
       /\ \/ ~IsObj(fs.doc)
          \/ ~IsObj(JGet(fs.doc, "profile", JNull))
          \/ ~IsObj(JGet(JGet(fs.doc, "profile", JNull), "info_cache", JNull))
          \/ ~IsObj(JGet(JGet(JGet(fs.doc, "profile", JNull), "info_cache", JNull),
                         fs.profile_dir, JNull))

\* C20: with a malformed Local State document discovery never raises; the
\* source is listed with the profile directory name as display name and
\* without icon.
C20_MalformedLocalStateFallsBack ==
    Malformed =>
        /\ pc \notin {"history_paths_raised", "paths_to_bookmarks_raised"}
        /\ pc \in {"history_paths_returned", "paths_to_bookmarks_returned"} =>
              /\ Len(dbs) = 1
              /\ dbs[1][2] = fs.profile_dir
              /\ dbs[1][4] = <<>>

\* info_cache[<profile directory>] of the Local State document, when the
\* document holds it as an object
EntryOf == JGet(JGet(JGet(fs.doc, "profile", JNull), "info_cache", JNull), fs.profile_dir, JNull)

\* C22: the display name of a listed source is the entry's name when the
\* entry has that key, else its user_name, else the profile directory name.
C22_DisplayNamePrefersName ==
    (/\ pc \in {"history_paths_returned", "paths_to_bookmarks_returned"}
     /\ fs.local_state = "json"
     /\ ~Malformed) =>
        dbs[1][2] = JGet(EntryOf, "name", JGet(EntryOf, "user_name", JStr(fs.profile_dir)))[2]

(***************************************************************************)
(* The walk of history_paths and of paths_to_bookmarks over one entry of   *)
(* a browser's data root (specification SpecGlob): which entries become a  *)
(* source.                                                                 *)
(***************************************************************************)
\* the characters of the names an entry of the data root may have
NameChars(name) ==
    CASE name = "Default" -> <<"D", "e", "f", "a", "u", "l", "t">>
      [] name = "Defaults" -> <<"D", "e", "f", "a", "u", "l", "t", "s">>
      [] name = "Profile 1" -> <<"P", "r", "o", "f", "i", "l", "e", " ", "1">>
      [] name = "Profile 12" -> <<"P", "r", "o", "f", "i", "l", "e", " ", "1", "2">>
      [] name = "Profile" -> <<"P", "r", "o", "f", "i", "l", "e">>
      [] name = "Profiles" -> <<"P", "r", "o", "f", "i", "l", "e", "s">>
      [] name = "Profile x" -> <<"P", "r", "o", "f", "i", "l", "e", " ", "x">>
      [] name = "Guest Profile" ->
            <<"G", "u", "e", "s", "t", " ", "P", "r", "o", "f", "i", "l", "e">>

DirNames ==
    {"Default", "Defaults", "Profile 1", "Profile 12", "Profile", "Profiles",
     "Profile x", "Guest Profile"}

\* fnmatch of glob.glob: "*" stands for any run of characters, every other
\* character for itself
RECURSIVE fnmatch(_, _)
fnmatch(name, pat) ==
    IF pat = <<>> THEN name = <<>>
    ELSE IF Head(pat) = "*"
         THEN \/ fnmatch(name, Tail(pat))
              \/ name # <<>> /\ fnmatch(Tail(name), pat)
         ELSE /\ name # <<>>
              /\ Head(name) = Head(pat)
              /\ fnmatch(Tail(name), Tail(pat))

\* profile_patterns = ["Default", "Profile*"]
profile_patterns ==
    << <<"D", "e", "f", "a", "u", "l", "t">>,
       <<"P", "r", "o", "f", "i", "l", "e", "*">> >>

\* glob.glob, os.path.isdir(profile_dir), os.path.isfile(history_file)
glob_lists ==
    /\ \E k \in 1..Len(profile_patterns) :
          fnmatch(NameChars(fs.profile_dir), profile_patterns[k])
    /\ fs.is_dir
    /\ fs.store_is_file

\* Local State documents of the walk: none, or one with the entry of Default
GlobLocalStates ==
    { [local_state |-> "absent", doc |-> JNull],
      [local_state |-> "json",
       doc |-> JObj({<<"profile",
                       JObj({<<"info_cache",
                               JObj({<<"Default",
                                       JObj({<<"user_name", JStr("u@x")>>})>>})>>})>>})] }

InitGlob ==
    /\ \E ls \in GlobLocalStates, dir \in DirNames, d \in BOOLEAN, f \in BOOLEAN :
          fs = [local_state |-> ls.local_state, doc |-> ls.doc,
                profile_dir |-> dir, picture_is_file |-> FALSE,
                is_dir |-> d, store_is_file |-> f]
    /\ pc \in {"history_paths", "paths_to_bookmarks"}
    /\ dbs = <<>>
    /\ last_visit_time = <<>> /\ last_visit = <<>> /\ bm_i = 0 /\ wf = <<>>
    /\ history_db = <<>> /\ ignored_domains_env = <<>>
    /\ query = <<>>
    /\ search_operator_default = TRUE
    /\ sort_recent = FALSE
    /\ ignored_domains = <<>>
    /\ store = <<>> /\ wpc = <<>> /\ res = <<>> /\ job = <<>>
    /\ tmp = {}
    /\ matches = <<>> /\ results = <<>> /\ bookmarks = <<>> /\ bm_results = <<>>

\* chrom_history.py:155-160: the entry is a profile directory with a History
HistoryPathsFound == glob_lists /\ HistoryPathsAppend

\* chrom_history.py:195-198: the entry is passed over, at most with a log line
HistoryPathsSkip ==
    /\ pc = "history_paths"
    /\ ~glob_lists
    /\ pc' = "history_paths_returned"
    /\ UNCHANGED <<dbs, discover_unchanged>>

\* chrom_bookmarks.py:197-202
PathsToBookmarksFound == glob_lists /\ PathsToBookmarksAppend

\* chrom_bookmarks.py:237-240
PathsToBookmarksSkip ==
    /\ pc = "paths_to_bookmarks"
    /\ ~glob_lists
    /\ pc' = "paths_to_bookmarks_returned"
    /\ UNCHANGED <<dbs, discover_unchanged>>

NextGlob ==
    \/ HistoryPathsFound
    \/ HistoryPathsSkip
    \/ PathsToBookmarksFound
    \/ PathsToBookmarksSkip

SpecGlob == InitGlob /\ [][NextGlob]_vars

\* the name is Default, or "Profile " and a number
ReservedName(name) ==
    \/ name = <<"D", "e", "f", "a", "u", "l", "t">>
    \/ /\ Len(name) > 8
       /\ SubSeq(name, 1, 8) = <<"P", "r", "o", "f", "i", "l", "e", " ">>
       /\ \A k \in 9..Len(name) : name[k] \in {"0", "1", "2", "3", "4", "5", "6", "7", "8", "9"}

\* C21: a directory under the data root becomes a source iff its name is
\* Default or Profile <N> and it holds the store file; no other directory
\* does, and none raises.
C21_ReservedProfileDirectories ==
    (fs.is_dir /\ pc \in {"history_paths_returned", "paths_to_bookmarks_returned"}) =>
        (Len(dbs) = 1 <=> (ReservedName(NameChars(fs.profile_dir)) /\ fs.store_is_file))

(***************************************************************************)
(* sql(db) step by step, with the path of the temporary copy and the       *)
(* choice of the SELECT (specification SpecSql).  A file in /tmp is the    *)
(* pair <<path, source whose History it is a copy of>>; history_db[i] is   *)
(* the path of worker i, 0 before uuid.uuid1() has run.                    *)
(***************************************************************************)
Safari == <<"S", "a", "f", "a", "r", "i">>

\* the History files a source may have: a Chromium profile, a Chromium
\* profile below a directory with Safari in its name, Safari's History.db
SqlPaths ==
    { [file |-> <<"C", "/", "H">>, tables |-> "chromium"],
      [file |-> Safari \o <<"/", "C", "/", "H">>, tables |-> "chromium"],
      [file |-> Safari \o <<"/", "H">>, tables |-> "legacy"] }

\* a name made of the number of files that are in /tmp at the call
uuid1_counts_files == 1 + Cardinality(tmp)

\* uuid.uuid1(): time based, no value is handed out twice
uuid1 ==
    LET used == {history_db[j] : j \in DOMAIN history_db} \cup {0}
    IN  1 + CHOOSE m \in used : \A u \in used : u <= m

\* the statement sql picks: "Safari" in db
select_statement(db) == IF Contains(db, Safari) THEN "legacy" ELSE "chromium"

InitSql ==
    /\ query = <<"a">>
    /\ search_operator_default = TRUE
    /\ sort_recent \in BOOLEAN
    /\ ignored_domains = <<>>
    /\ \E n \in 1..MaxSources :
        /\ \E paths \in [1..n -> SqlPaths] :
            /\ dbs = [i \in 1..n |->
                         <<Source(i)[1], Source(i)[2], paths[i].file, Source(i)[4]>>]
            /\ \E rows \in [1..n -> StoreRows] :
                  store = [i \in 1..n |->
                              [state |-> "ok", rows |-> rows[i], tables |-> paths[i].tables]]
        /\ wpc = [i \in 1..n |-> "queued"]
        /\ res = [i \in 1..n |-> <<>>]
        /\ job = [i \in 1..n |-> Pending]
        /\ history_db = [i \in 1..n |-> 0]
    /\ tmp = {}
    /\ pc = "map"
    /\ matches = <<>>
    /\ results = <<>>
    /\ bookmarks = <<>>
    /\ bm_results = <<>>
    /\ last_visit_time = <<>> /\ last_visit = <<>> /\ fs = <<>> /\ bm_i = 0 /\ wf = <<>>
    /\ ignored_domains_env = <<>>

sql_unchanged ==
    <<config, last_visit_time, last_visit, fs, bm_i, wf, ignored_domains_env,
      pc, matches, results, bookmarks, bm_results>>

\* history_db = f"/tmp/{uuid.uuid1()}"
SqlName(i) ==
    /\ pc = "map" /\ wpc[i] = "queued"
    /\ history_db' = [history_db EXCEPT ![i] = uuid1]
    /\ wpc' = [wpc EXCEPT ![i] = "named"]
    /\ UNCHANGED <<sql_unchanged, tmp, res, job>>

\* shutil.copy2(db, history_db): a file already at that path is replaced
SqlCopy(i) ==
    /\ pc = "map" /\ wpc[i] = "named"
    /\ tmp' = {f \in tmp : f[1] # history_db[i]} \cup {<<history_db[i], i>>}
    /\ wpc' = [wpc EXCEPT ![i] = "copied"]
    /\ UNCHANGED <<sql_unchanged, history_db, res, job>>

\* the file sqlite3.connect(history_db) opens suits the statement: it is
\* there and has that statement's tables
Selectable(i) ==
    \E f \in tmp :
        /\ f[1] = history_db[i]
        /\ store[f[2]].tables = select_statement(dbs[i][3])

\* cursor.execute(select_statement), fetchall, res.extend(r)
SqlSelect(i) ==
    /\ pc = "map" /\ wpc[i] = "copied"
    /\ Selectable(i)
    /\ LET f == CHOOSE f \in tmp : f[1] = history_db[i]
       IN  res' = [res EXCEPT ![i] = res[i] \o store[f[2]].rows]
    /\ wpc' = [wpc EXCEPT ![i] = "fetched"]
    /\ UNCHANGED <<sql_unchanged, history_db, tmp, job>>

\* no such table (or an empty database sqlite3 has just created at the
\* path): sqlite3.OperationalError, logged, sys.exit(1)
SqlSelectFails(i) ==
    /\ pc = "map" /\ wpc[i] = "copied"
    /\ ~Selectable(i)
    /\ wpc' = [wpc EXCEPT ![i] = "exited"]
    /\ UNCHANGED <<sql_unchanged, history_db, tmp, res, job>>

\* os.remove(history_db), which raises FileNotFoundError when the file is
\* gone; return res
SqlRemove(i) ==
    /\ pc = "map" /\ wpc[i] = "fetched"
    /\ IF \E f \in tmp : f[1] = history_db[i]
       THEN /\ tmp' = {f \in tmp : f[1] # history_db[i]}
            /\ wpc' = [wpc EXCEPT ![i] = "returned"]
            /\ job' = [job EXCEPT ![i] =
                          [state |-> "ok", value |-> with_profile(dbs[i], res[i])]]
       ELSE /\ tmp' = tmp
            /\ wpc' = [wpc EXCEPT ![i] = "raised"]
            /\ job' = [job EXCEPT ![i] = [state |-> "error", value |-> <<>>]]
    /\ UNCHANGED <<sql_unchanged, history_db, res>>

\* p.map has every result: the rest of get_histories
SqlReturn ==
    /\ pc = "map" /\ AllTasksDone
    /\ \A i \in DOMAIN job : job[i].state = "ok"
    /\ matches' = Concat([i \in DOMAIN job |-> job[i].value])
    /\ results' = post_process([i \in DOMAIN job |-> job[i].value], query)
    /\ pc' = "done"
    /\ UNCHANGED <<config, aux, wpc, tmp, res, job, bookmarks, bm_results>>

NextSql ==
    \/ \E i \in DOMAIN dbs : SqlName(i)
    \/ \E i \in DOMAIN dbs : SqlCopy(i)
    \/ \E i \in DOMAIN dbs : SqlSelect(i)
    \/ \E i \in DOMAIN dbs : SqlSelectFails(i)
    \/ \E i \in DOMAIN dbs : SqlRemove(i)
    \/ SqlReturn

SpecSql == InitSql /\ [][NextSql]_vars

\* C24: no two workers have the same temporary path; a file in /tmp is the
\* copy its path's worker made, a worker between copy and removal finds its
\* own copy there, and the rows a worker fetched from a store of its
\* statement's kind are the rows of its own source.
C24_TemporaryPathsDisjoint ==
    /\ \A i, j \in DOMAIN dbs :
          (i # j /\ history_db[i] # 0) => history_db[i] # history_db[j]
    /\ \A f \in tmp : history_db[f[2]] = f[1]
    /\ \A i \in DOMAIN dbs :
          /\ wpc[i] \in {"copied", "fetched", "exited"} => <<history_db[i], i>> \in tmp
          /\ wpc[i] = "fetched" => res[i] = store[i].rows
          /\ wpc[i] # "raised"

\* two workers hold their copies in /tmp at one time
C24_Witness ==
    \E i, j \in DOMAIN dbs :
        /\ i # j
        /\ wpc[i] = "copied" /\ wpc[j] = "fetched"
        /\ Cardinality(tmp) = 2

\* C26: the statement sql has run on a store is the one for the store's
\* tables: the Chromium one for urls/visits, the legacy one for
\* history_items/history_visits, whatever the path.
C26_QueryShapeFollowsStructure ==
    \A i \in DOMAIN dbs :
        wpc[i] \in {"fetched", "returned", "exited"} =>
            select_statement(dbs[i][3]) = store[i].tables

(***************************************************************************)
(* get_histories under every configured ignored_domains text               *)
(* (specification SpecIgnore).                                             *)
(***************************************************************************)
MaxConfigLen == 3

\* the texts a user may configure: domains and commas
ConfigTexts == UNION {[1..n -> {"a", "b", ","}] : n \in 0..MaxConfigLen}

\* ignored_domains = d.split(",") if d else None; None is the empty list
ignored_domains_of(d) == IF d # <<>> THEN Split(d, ",") ELSE <<>>

InitIgnore ==
    /\ ignored_domains_env \in ConfigTexts
    /\ ignored_domains = ignored_domains_of(ignored_domains_env)
    /\ query = <<"a">>
    /\ search_operator_default = TRUE
    /\ sort_recent = FALSE
    /\ \E n \in 1..2 :
        /\ dbs = [i \in 1..n |-> Source(i)]
        /\ store \in [1..n -> [state : {"ok"}, rows : StoreRows]]
        /\ wpc = [i \in 1..n |-> "queued"]
        /\ res = [i \in 1..n |-> <<>>]
        /\ job = [i \in 1..n |-> Pending]
    /\ tmp = {}
    /\ pc = "map"
    /\ matches = <<>>
    /\ results = <<>>
    /\ bookmarks = <<>>
    /\ bm_results = <<>>
    /\ last_visit_time = <<>> /\ last_visit = <<>> /\ fs = <<>> /\ bm_i = 0 /\ wf = <<>>
    /\ history_db = <<>>

NextIgnore ==
    \/ \E i \in DOMAIN dbs : Copy(i)
    \/ \E i \in DOMAIN dbs : Query(i)
    \/ \E i \in DOMAIN dbs : Remove(i)
    \/ Return

SpecIgnore == InitIgnore /\ [][NextIgnore]_vars

\* the list has an empty entry
HasEmptyEntry == \E k \in 1..Len(ignored_domains) : ignored_domains[k] = <<>>

\* C30: the ignore list is the configured text split at every comma, empty
\* pieces kept; with an empty entry remove_ignored_domains yields the empty
\* list and get_histories returns no record.
C30_EmptyIgnoredDomainDropsAll ==
    /\ ignored_domains_env # <<>> =>
          Len(ignored_domains) =
              1 + Cardinality({k \in 1..Len(ignored_domains_env) : ignored_domains_env[k] = ","})
    /\ \A k \in 1..Len(ignored_domains) : ~Has(ignored_domains[k], ",")
    /\ (pc = "done" /\ HasEmptyEntry) =>
          /\ remove_ignored_domains(matches, ignored_domains) = <<>>
          /\ results = <<>>

\* with the text "b," a record whose url has no b is dropped all the same
C30_Witness ==
    /\ pc = "done"
    /\ ignored_domains_env = <<"b", ",">>
    /\ \E n \in 1..Len(matches) : ~Has(matches[n][1], "b") /\ MatchesQuery(matches[n])
    /\ results = <<>>

====
